---- MODULE Spec2Model ----
(***************************************************************************)
(* WxBot_76067: the TTL cache, the cached fetch wrappers, the saved        *)
(* location store and the nearest-station resolver of main.py.             *)
(*                                                                         *)
(* Eleven specifications share this module; each leaves the variables of   *)
(* the others unchanged.                                                   *)
(*   SpecCache  cache_get / cache_set called one after another, with a     *)
(*              clock (the contract of section 4.1).                       *)
(*   SpecStore  threads calling save_location / delete_location /          *)
(*              get_location on the locations file.                        *)
(*   Spec       command tasks on the event loop calling the cached fetch   *)
(*              wrappers; a task runs without interruption between awaits. *)
(*   SpecThreads  the same wrapper dispatched on worker threads, which may *)
(*              interleave at every statement.                             *)
(*   SpecFc     Spec restricted to forecast calls, over points around zero *)
(*              and around a rounding step.                                *)
(*   SpecEntries  Spec over stations and points with different keys.       *)
(*   SpecQuery  wx_save, wxnow and wxforecast commands on the event loop.  *)
(*   SpecUpstream  wx_set and a query task, interleaved.                   *)
(*   SpecHome   wx_save and wx_set commands, one after another.            *)
(*   SpecHav    _haversine_km on pairs of grid points.                     *)
(*   SpecSet    the wx_set command on the event loop: geocoding, the       *)
(*              nearest-station lookup and the save of "home".             *)
(***************************************************************************)
EXTENDS Integers, Sequences, FiniteSets, TLC

\* Python's None: what dict.get and the functions return for "absent".
None == "None"

(***************************************************************************)
(* Python dict helpers: a dict is a function whose domain is its key set.  *)
(***************************************************************************)
EmptyDict == [x \in {} |-> None]

DictSet(d, k, v) == [x \in (DOMAIN d) \cup {k} |-> IF x = k THEN v ELSE d[x]]

DictPop(d, k) == [x \in (DOMAIN d) \ {k} |-> d[x]]

DictGet(d, k, default) == IF k \in DOMAIN d THEN d[k] ELSE default

(***************************************************************************)
(* The in-memory TTL cache (main.py 113-133).                              *)
(* _cache[key] = (expires_at_epoch_seconds, value)                         *)
(***************************************************************************)
VARIABLES
    cache,        \* _cache: key -> [exp, val]
    now,          \* time.time(), in whole seconds
    last_set,     \* history: per key, the latest cache_set (or NoSet)
    old_exp,      \* history: per key, the latest expiry among the earlier cache_sets (-1: none)
    last_call     \* history: the latest completed cache_get / cache_set call

cacheVars == <<cache, now, last_set, old_exp, last_call>>

\* Bounds of SpecCache.
MaxTime == 2
MaxTtl == 2

Keys == {"k1", "k2"}
Values == {"v1", "v2"}
Ttls == 0..MaxTtl

NoSet == [val |-> None, ttl |-> -1, at |-> -1]
NoCall == [op |-> "none", key |-> "", at |-> -1, ret |-> None,
           had |-> FALSE, size_before |-> 0]

\* cache_get, the value returned: None if missing or now >= exp.
cache_get_ret_late(c, key, t) ==
    IF key \notin DOMAIN c THEN None
    ELSE IF t > c[key].exp THEN None
    ELSE c[key].val

cache_get_ret(c, key, t) ==
    IF key \notin DOMAIN c THEN None
    ELSE IF t >= c[key].exp THEN None
    ELSE c[key].val

\* cache_get, the map it leaves: an expired entry is popped.
cache_get_map_keep(c, key, t) == c

cache_get_map(c, key, t) ==
    IF key \notin DOMAIN c THEN c
    ELSE IF t >= c[key].exp THEN DictPop(c, key)
    ELSE c

\* cache_set, the map it leaves: exp = time.time() + ttl_seconds, overwriting.
cache_set_map_keep_exp(c, key, value, ttl_seconds, t) ==
    LET exp == IF key \in DOMAIN c /\ c[key].exp > t + ttl_seconds
               THEN c[key].exp ELSE t + ttl_seconds
    IN  DictSet(c, key, [exp |-> exp, val |-> value])

cache_set_map_rel(c, key, value, ttl_seconds, t) ==
    DictSet(c, key, [exp |-> ttl_seconds, val |-> value])

cache_set_map(c, key, value, ttl_seconds, t) ==
    DictSet(c, key, [exp |-> t + ttl_seconds, val |-> value])

(***************************************************************************)
(* Per-user saved locations (main.py 55-97): data/locations.json holds      *)
(* { "<user_id>": { "<name>": {station_id, lat, lon, units} } }.            *)
(***************************************************************************)
VARIABLES
    file,         \* data/locations.json: [st: "missing" | "empty" | "json", text]
    loc_lock,     \* _loc_lock: the thread holding it, 0 when free
    ppc,          \* per thread: where it is in its call
    parg,         \* per thread: the call and its arguments
    pdata,        \* per thread: the local `data` of save_location / delete_location
    calls,        \* number of calls started
    latest,       \* history: per (user, name), the entry of the latest completed save, None after a delete
    last_op,      \* history: the latest completed call
    overlapped    \* history: some save / delete was called while another call was in progress

storeVars == <<file, loc_lock, ppc, parg, pdata, calls, latest, last_op, overlapped>>

\* Bounds of SpecStore.
NumThreads == 2
MaxCalls == 3

Threads == 1..NumThreads
Users == {"42", "7"}
Names == {"home", "work"}
\* lat / lon in units of 0.0001 degree.
Entries == {
    [station_id |-> "KMWL", lat |-> 327932, lon |-> -980891, units |-> "imperial"],
    [station_id |-> "KDFW", lat |-> 328998, lon |-> -970403, units |-> "metric"] }

\* None where an entry is expected (get_location's "absent").
NoneEntry == [none |-> TRUE]
\* History mark: the pair was saved and then deleted.
Deleted == [deleted |-> TRUE]

MissingFile == [st |-> "missing", text |-> {}]
TruncatedFile == [st |-> "empty", text |-> {}]

\* json.dump(data, f, indent=2): the object as its members, "key": value pairs,
\* nested one level ("<user_id>": {"<name>": {...}}).
json_dump(data) ==
    { <<u, { <<n, data[u][n]>> : n \in DOMAIN data[u] }>> : u \in DOMAIN data }

\* json.load(f): the dict the members denote.
json_load(text) ==
    [u \in { m[1] : m \in text } |->
        LET members == (CHOOSE m \in text : m[1] = u)[2]
        IN  [n \in { x[1] : x \in members } |->
                (CHOOSE x \in members : x[1] = n)[2]]]

\* _loc_load: {} when the file does not exist or does not parse.
loc_load(f) ==
    IF f.st = "missing" THEN EmptyDict
    ELSE IF f.st = "empty" THEN EmptyDict   \* json.load raises, caught
    ELSE json_load(f.text)

\* _loc_save, first half: open(LOC_PATH, "w") truncates the file.
loc_save_open(f) == TruncatedFile

\* _loc_save, second half: json.dump writes and the with-block closes the file.
loc_save_write(f, data) == [st |-> "json", text |-> json_dump(data)]

\* save_location, lines 78-80: user = data.get(user_id, {}); user[name] = entry;
\* data[user_id] = user.
save_data_home(data, user_id, name, entry) ==
    DictSet(data, user_id, DictSet(DictGet(data, user_id, EmptyDict), "home", entry))

save_data(data, user_id, name, entry) ==
    DictSet(data, user_id, DictSet(DictGet(data, user_id, EmptyDict), name, entry))

\* delete_location, line 93: user_id in data and name in data[user_id].
delete_found(data, user_id, name) ==
    user_id \in DOMAIN data /\ name \in DOMAIN data[user_id]

\* delete_location, line 94: del data[user_id][name].
delete_data_user(data, user_id, name) ==
    DictPop(data, user_id)

delete_data(data, user_id, name) ==
    DictSet(data, user_id, DictPop(data[user_id], name))

\* get_location: _loc_load().get(user_id, {}).get(name).
get_location(f, user_id, name) ==
    DictGet(DictGet(loc_load(f), user_id, EmptyDict), name, NoneEntry)

\* threading.Lock: acquire succeeds only when no thread holds it.
lock_free_always(l) == TRUE

lock_free(l) == l = 0

(***************************************************************************)
(* NWS API calls and their cached wrappers (main.py 215-266).               *)
(***************************************************************************)
VARIABLES
    cache_lock,   \* _cache_lock: the task holding it, 0 when free
    tpc,          \* per task: where its fetch_*_cached call is
    tcall,        \* per task: the call, its arguments and its cache key
    tret,         \* per task: the value the call returned (None: none yet)
    tissued,      \* per task: upstream GETs the call has issued
    tlocal,       \* per task: the time.time() read by the cache_get / cache_set in progress
    fcalls,       \* number of wrapper calls started
    solo          \* history: per task, the cache at the call's start if no other call overlaps it

taskVars == <<cache_lock, tpc, tcall, tret, tissued, tlocal, fcalls, solo>>

\* The default TTLs of the wrappers, as wxnow and build_forecast_embed pass them.
OBS_TTL == 300
FC_TTL == 900

\* Bounds of Spec.
MaxFetchCalls == 3
MaxWindows == 3

Tasks == {1, 2}

\* The clock is sampled at the seconds around each multiple of the shorter TTL.
TimePoints == { n \in 0..(MaxWindows * OBS_TTL) : n % OBS_TTL \in {0, OBS_TTL - 1} }

StationIds == {"KMWL", "kmwl"}
\* (lat, lon) in units of 0.0001 degree; none ends in 5 (no rounding tie).
Points == { <<327932, -980891>>, <<327934, -980891>> }

\* str.upper on the station identifiers.
upper(station_id) ==
    CASE station_id = "kmwl" -> "KMWL"
      [] station_id = "kdfw" -> "KDFW"
      [] OTHER -> station_id

\* round(x, 3): x in units of 0.0001, the result in units of 0.001.
round3(x) == (x + 5) \div 10

\* The fraction digits of a float's repr, trailing zeros dropped.
frac_str(f) ==
    IF f % 100 = 0 THEN ToString(f \div 100)
    ELSE IF f % 10 = 0 THEN (IF f < 100 THEN "0" ELSE "") \o ToString(f \div 10)
    ELSE (IF f < 10 THEN "00" ELSE IF f < 100 THEN "0" ELSE "") \o ToString(f)

\* f"{x}" of the float of m thousandths; neg: the float is negative (-0.0 included).
float_str(m, neg) ==
    LET a == IF m < 0 THEN -m ELSE m
    IN  (IF neg THEN "-" ELSE "") \o ToString(a \div 1000) \o "." \o frac_str(a % 1000)

\* key = f"obs:{station_id.upper()}"
obs_key(station_id) == "obs:" \o upper(station_id)

\* lat_k = round(lat, 3); lon_k = round(lon, 3); key = f"fc:{lat_k}:{lon_k}"
fc_key(lat, lon) ==
    "fc:" \o float_str(round3(lat), lat < 0) \o ":" \o float_str(round3(lon), lon < 0)

\* The URL an upstream GET names: stations/{station_id}/observations/latest ...
obs_url_default(station_id) == "stations/KMWL"

obs_url(station_id) == "stations/" \o station_id

\* ... and points/{lat},{lon}, called with the rounded coordinates.
points_url(lat, lon) ==
    "points/" \o float_str(round3(lat), lat < 0) \o "," \o float_str(round3(lon), lon < 0)

\* What upstream answers for a URL at a time: r.json()["properties"], told apart
\* by the URL asked and the second it was served.
Payload(url, served) == url \o "@" \o ToString(served)

\* The points of SpecFc, latitudes around zero and around a rounding step:
\* -0.0001, 0.0001 and 0.0004 round to zero, 0.0012 to 0.001.
FcPoints == { <<-1, -980891>>, <<1, -980891>>, <<4, -980891>>, <<12, -980891>> }

\* The stations and points a saved "home" can name (SpecQuery).
HomeStations == {"KMWL", "KDFW", "A", "B"}
HomePoints == { <<327932, -980891>>, <<328998, -970403>>, <<1000, 1000>>, <<0, 0>> }

FetchKeys ==
    { obs_key(s) : s \in StationIds \cup HomeStations }
    \cup { fc_key(p[1], p[2]) : p \in Points \cup FcPoints \cup HomePoints }

NoFetch == [fn |-> "none", arg |-> <<>>, url |-> "", key |-> "", ttl |-> 0]
NotSolo == [on |-> FALSE, before |-> EmptyDict]

Awaiting == {"await_obs", "await_points", "await_forecast"}

(***************************************************************************)
(* Geocoding, the nearest-station resolver and wx_set (main.py 269-326,     *)
(* 489-526).                                                               *)
(***************************************************************************)
VARIABLES
    spc,          \* where the wx_set command is: idle, await_geocode, await_points, await_stations, done
    sarg,         \* its arguments: user, location, units
    sgeo,         \* geo: what geocode_freeform returned
    slookup,      \* history: what the station lookup yielded (got: none, no_ref, features)
    sres,         \* station: what find_nearest_nws_station returned
    smsgs,        \* the messages the command sent with followup.send
    scmds,        \* number of wx_set commands started
    sgets         \* history: the GETs the command issued, each with the status it was answered with

setVars == <<spc, sarg, sgeo, slookup, sres, smsgs, scmds, sgets>>

\* Bounds of SpecSet.
MaxCands == 3
MaxSetCmds == 2

\* R = 6371.0088 km, in units of 0.1 km.
EARTH_R == 63710
\* best_d = 1e9 (km) before the scan; distances here are in thousandths of a km,
\* and 10^9 of them is still farther than any two points of the sphere.
BEST_D0 == 1000000000

SetUsers == {"42"}
UnitsArgs == {"imperial", "Metric", "kelvin"}
HttpErrors == {500}

\* Geocoder results (lat, lon in units of 0.0001 degree, display_name).
GeoResults == {
    [lat |-> 1000, lon |-> 1000, name |-> "Tenth"],
    [lat |-> 0, lon |-> 0, name |-> "Origin"] }
NoGeo == [lat |-> 0, lon |-> 0, name |-> ""]

\* "coordinates" missing, null or [] (all of them falsy).
NoCoords == <<>>

\* Features of the observationStations collection: properties.stationIdentifier
\* and geometry.coordinates, GeoJSON [lon, lat] in units of 0.0001 degree.
\* geom: "object" when "geometry" is a JSON object (or the key is missing, which
\* f.get("geometry", {}) turns into one), "null" when it is JSON null.
A00 == [sid |-> "A", geom |-> "object", coords |-> <<0, 0>>]
B02 == [sid |-> "B", geom |-> "object", coords |-> <<2000, 0>>]
B11 == [sid |-> "B", geom |-> "object", coords |-> <<10000, 10000>>]
\* No identifier; no coordinates; "geometry": null; "coordinates": [0].
NoSid == [sid |-> "", geom |-> "object", coords |-> <<0, 0>>]
NoPair == [sid |-> "A", geom |-> "object", coords |-> NoCoords]
NullGeom == [sid |-> "A", geom |-> "null", coords |-> NoCoords]
OneCoord == [sid |-> "A", geom |-> "object", coords |-> <<0>>]

Cands == {A00, B02, B11, NoSid, NoPair, NullGeom, OneCoord}

FeatureLists == UNION { [1..n -> Cands] : n \in 0..MaxCands }

NoLookup == [got |-> "none", features |-> <<>>]

\* str.lower on the units arguments.
lower(units) ==
    CASE units = "Metric" -> "metric"
      [] units = "Imperial" -> "imperial"
      [] OTHER -> units

abs(x) == IF x < 0 THEN -x ELSE x

\* 10^5 * sin(x / 2) for x = 0.0, 0.1, ... 1.0 degree.
SIN_HALF == <<0, 87, 175, 262, 349, 436, 524, 611, 698, 785, 873>>
\* 10^3 * cos(x) for x = 0.0, 0.1, ... 1.0 degree.
COS == <<1000, 1000, 1000, 1000, 1000, 1000, 1000, 1000, 1000, 1000, 1000>>

\* math.sin(math.radians(d) / 2) * 10^5, d in units of 0.0001 degree.
sin_half(d) == (IF d < 0 THEN -1 ELSE 1) * SIN_HALF[abs(d) \div 1000 + 1]

\* math.cos(math.radians(x)) * 10^3, x in units of 0.0001 degree.
cos(x) == COS[abs(x) \div 1000 + 1]

\* math.sqrt, rounded down: the r of lo..hi with r * r <= n < (r + 1) * (r + 1).
RECURSIVE sqrt_in(_, _, _)
sqrt_in(n, lo, hi) ==
    IF lo = hi THEN lo
    ELSE LET mid == (lo + hi + 1) \div 2
         IN  IF mid * mid <= n THEN sqrt_in(n, mid, hi) ELSE sqrt_in(n, lo, mid - 1)

sqrt(n) == sqrt_in(n, 0, 2000)

\* (mutation: the first point's latitude left out of dphi)
haversine_km_flat(lat1, lon1, lat2, lon2) ==
    LET dphi == lat2
        dlmb == lon2 - lon1
        a == sin_half(dphi) * sin_half(dphi)
             + (((cos(lat1) * cos(lat2)) \div 1000) * (sin_half(dlmb) * sin_half(dlmb))) \div 1000
    IN  (2 * EARTH_R * sqrt(a)) \div 1000

\* _haversine_km in fixed point: a in units of 10^-10, asin(x) = x to that
\* precision for the angles of the grid; the result in thousandths of a km.
haversine_km(lat1, lon1, lat2, lon2) ==
    LET dphi == lat2 - lat1
        dlmb == lon2 - lon1
        a == sin_half(dphi) * sin_half(dphi)
             + (((cos(lat1) * cos(lat2)) \div 1000) * (sin_half(dlmb) * sin_half(dlmb))) \div 1000
    IN  (2 * EARTH_R * sqrt(a)) \div 1000

\* line 322: if sid and slat is not None and slon is not None
\* (coords = geom.get("coordinates") or [None, None]).
is_valid(f) == f.sid # "" /\ f.sid # None /\ f.coords # NoCoords

\* An exception leaves find_nearest_nws_station in place of a return value.
Raised == "<raise>"

\* lines 319-321: geom.get on None is an AttributeError, coords[1] of a list of
\* one element an IndexError.
raises(f) == f.geom = "null" \/ Len(f.coords) = 1

\* line 324: if d < best_d
closer_or_equal(d, best_d) == d <= best_d

closer(d, best_d) == d < best_d

\* lines 317-325: the for loop from feature i on; coords[0] is slon, coords[1] slat.
RECURSIVE nearest_scan(_, _, _, _, _, _)
nearest_scan(features, i, lat, lon, best_id, best_d) ==
    IF i > Len(features) THEN best_id
    ELSE LET f == features[i]
         IN  IF raises(f) THEN Raised
             ELSE IF is_valid(f)
             THEN LET d == haversine_km(lat, lon, f.coords[2], f.coords[1])
                  IN  IF closer(d, best_d)
                      THEN nearest_scan(features, i + 1, lat, lon, f.sid, d)
                      ELSE nearest_scan(features, i + 1, lat, lon, best_id, best_d)
             ELSE nearest_scan(features, i + 1, lat, lon, best_id, best_d)

\* lines 313-326: features = rs.json().get("features", []); the scan; return best_id.
nearest_of(features, lat, lon) ==
    IF features = <<>> THEN None
    ELSE nearest_scan(features, 1, lat, lon, None, BEST_D0)

\* wx_set line 506: if not station.
not_station_never(station) == FALSE

not_station(station) == station = None \/ station = ""

\* A GET that is issued, and the list of GETs after the latest was answered.
Get(url) == [url |-> url, status |-> 0]
Answered(gets, status) == [gets EXCEPT ![Len(gets)].status = status]

\* Where wx_set is after an HTTPStatusError: the handler at lines 523-524 ends
\* the command.
on_http_error_retry(pc) == pc

on_http_error(pc) == "done"

\* The texts wx_set sends.
MsgUnits == "Units must be 'imperial' or 'metric'."
MsgNotFound(location) == "I couldn't find '" \o location \o "'. Try a more specific place."
MsgNoStation(display_name) ==
    "Found " \o display_name \o ", but couldn't find a nearby NWS station."
MsgHomeSet(display_name, station) ==
    "Home set to " \o display_name \o ", nearest NWS station: " \o upper(station)
MsgHttpError(status) == "Geocoding/NWS error: " \o ToString(status)
MsgUnexpected == "Unexpected error: "

\* The entry wx_set saves as "home".
home_entry(station, geo, un) ==
    [station_id |-> upper(station), lat |-> geo.lat, lon |-> geo.lon, units |-> un]

(***************************************************************************)
(* The commands that read and write the saved location: wx_save, wxnow and *)
(* wxforecast (main.py 99-111, 434-487).                                   *)
(***************************************************************************)
VARIABLES
    tcmd,         \* per task: the wxnow / wxforecast command it runs, the location it resolved
    qmsgs,        \* per task: the messages the command sent with followup.send
    wsave         \* the latest wx_save command: its arguments and its answer

cmdVars == <<tcmd, qmsgs, wsave>>

\* STATION_ID, LAT, LON of the environment's defaults (LAT, LON in 0.0001 degree).
STATION_ID == "KMWL"
LAT == 327932
LON == -980891

\* An optional argument: <<>> for None, <<x>> for x.
Nothing == <<>>

\* wx_save's arguments: (station_id, lat, lon), each optional.
SaveArgs == { <<Nothing, Nothing, Nothing>>, <<<<"kdfw">>, <<328998>>, <<-970403>>>> }

\* wx_save's units argument.
SaveUnits == {"Metric", "kelvin"}

\* x or default, for an optional string.
or_default(opt, default) == IF opt = Nothing \/ opt = <<"">> THEN default ELSE opt[1]

\* x if x is not None else default.
if_none(opt, default) == IF opt = Nothing THEN default ELSE opt[1]

\* wx_save lines 469-472.
wx_save_entry_raw(station_id, lat, lon, units) ==
    [station_id |-> or_default(station_id, STATION_ID),
     lat |-> if_none(lat, LAT),
     lon |-> if_none(lon, LON),
     units |-> lower(or_default(<<units>>, "imperial"))]

wx_save_entry(station_id, lat, lon, units) ==
    [station_id |-> upper(or_default(station_id, STATION_ID)),
     lat |-> if_none(lat, LAT),
     lon |-> if_none(lon, LON),
     units |-> lower(or_default(<<units>>, "imperial"))]

\* lines 474, 495: un in ("imperial", "metric").
units_ok_any(un) == TRUE

units_ok(un) == un \in {"imperial", "metric"}

MsgSaved(e) == "Saved home: station " \o e.station_id \o ", units " \o e.units
MsgNwsError(status) == "Error from NWS: " \o ToString(status)
MsgEmbed(payload) == "embed of " \o payload

\* resolve_user_location: (station_id, lat, lon, units) of the user's "home", else
\* of the environment.
resolve_user_location_first(f, user_id) ==
    LET loc == get_location(f, "42", "home")
    IN  IF loc # NoneEntry
        THEN [st |-> upper(or_default(<<loc.station_id>>, STATION_ID)),
              la |-> loc.lat, lo |-> loc.lon,
              un |-> lower(or_default(<<loc.units>>, "imperial"))]
        ELSE [st |-> STATION_ID, la |-> LAT, lo |-> LON, un |-> "imperial"]

resolve_user_location(f, user_id) ==
    LET loc == get_location(f, user_id, "home")
    IN  IF loc # NoneEntry
        THEN [st |-> upper(or_default(<<loc.station_id>>, STATION_ID)),
              la |-> loc.lat, lo |-> loc.lon,
              un |-> lower(or_default(<<loc.units>>, "imperial"))]
        ELSE [st |-> STATION_ID, la |-> LAT, lo |-> LON, un |-> "imperial"]

NoLoc == [st |-> "", la |-> 0, lo |-> 0, un |-> ""]
NoCmd == [cmd |-> "none", user |-> "", loc |-> NoLoc, err |-> 0, gets |-> 0]
NoSave == [user |-> "", units |-> "", entry |-> NoneEntry, saved |-> FALSE, msg |-> ""]

(***************************************************************************)
(* _haversine_km called on its own, for pairs of points of a grid.         *)
(***************************************************************************)
VARIABLES
    hav_in,       \* the pair of points (lat, lon) the distances are asked for
    hav_out       \* the distances computed: A to B, B to A, A to A

havVars == <<hav_in, hav_out>>

\* Latitudes and longitudes of the grid, in units of 0.0001 degree.
HavGrid == {-5000, 0, 1000, 5000}
HavPoints == HavGrid \X HavGrid
NoDist == [ab |-> -1, ba |-> -1, aa |-> -1]

\* What the actions of one specification leave unchanged.
notCacheVars == <<storeVars, taskVars, setVars, cmdVars, havVars>>
notStoreVars == <<cacheVars, taskVars, setVars, cmdVars, havVars>>

----------------------------------------------------------------------------
(***************************************************************************)
(* The state after import: an empty cache, no locations file, free locks.  *)
(***************************************************************************)
NoArg == [op |-> "none", user |-> "", name |-> "", entry |-> NoneEntry]
NoOp == [op |-> "none", user |-> "", name |-> "", ret |-> NoneEntry, was |-> NoneEntry,
         quiet |-> FALSE]

InitStoreVars ==
    /\ file = MissingFile
    /\ loc_lock = 0
    /\ ppc = [p \in Threads |-> "idle"]
    /\ parg = [p \in Threads |-> NoArg]
    /\ pdata = [p \in Threads |-> EmptyDict]
    /\ calls = 0
    /\ latest = [u \in Users |-> [n \in Names |-> NoneEntry]]
    /\ last_op = NoOp
    /\ overlapped = FALSE

InitCacheVars ==
    /\ cache = EmptyDict
    /\ now = 0
    /\ last_set = [k \in Keys |-> NoSet]
    /\ old_exp = [k \in Keys |-> -1]
    /\ last_call = NoCall

InitTaskVars ==
    /\ cache_lock = 0
    /\ tpc = [t \in Tasks |-> "idle"]
    /\ tcall = [t \in Tasks |-> NoFetch]
    /\ tret = [t \in Tasks |-> None]
    /\ tissued = [t \in Tasks |-> 0]
    /\ tlocal = [t \in Tasks |-> 0]
    /\ fcalls = 0
    /\ solo = [t \in Tasks |-> NotSolo]

InitSetVars ==
    /\ spc = "idle"
    /\ sarg = [user |-> "", location |-> "", units |-> ""]
    /\ sgeo = NoGeo
    /\ slookup = NoLookup
    /\ sres = None
    /\ smsgs = <<>>
    /\ scmds = 0
    /\ sgets = <<>>

InitCmdVars ==
    /\ tcmd = [t \in Tasks |-> NoCmd]
    /\ qmsgs = [t \in Tasks |-> <<>>]
    /\ wsave = NoSave

InitHavVars ==
    /\ hav_in = <<<<0, 0>>, <<0, 0>>>>
    /\ hav_out = NoDist

Init ==
    InitCacheVars /\ InitStoreVars /\ InitTaskVars /\ InitSetVars /\ InitCmdVars /\ InitHavVars

\* Spec starts with no history for the wrappers' keys.
InitFetch ==
    /\ cache = EmptyDict
    /\ now = 0
    /\ last_set = [k \in FetchKeys |-> NoSet]
    /\ old_exp = [k \in FetchKeys |-> -1]
    /\ last_call = NoCall
    /\ InitStoreVars
    /\ InitTaskVars
    /\ InitSetVars
    /\ InitCmdVars
    /\ InitHavVars

(***************************************************************************)
(* SpecCache: one caller, calls made one after another.                    *)
(***************************************************************************)
CallCacheSet(key, value, ttl) ==
    /\ cache' = cache_set_map(cache, key, value, ttl, now)
    /\ last_set' = [last_set EXCEPT ![key] = [val |-> value, ttl |-> ttl, at |-> now]]
    /\ old_exp' = [old_exp EXCEPT ![key] =
                      IF last_set[key] = NoSet THEN @
                      ELSE IF last_set[key].at + last_set[key].ttl > @
                           THEN last_set[key].at + last_set[key].ttl ELSE @]
    /\ last_call' = [op |-> "set", key |-> key, at |-> now, ret |-> None,
                     had |-> key \in DOMAIN cache,
                     size_before |-> Cardinality(DOMAIN cache)]
    /\ UNCHANGED <<now, notCacheVars>>

CallCacheGet(key) ==
    /\ cache' = cache_get_map(cache, key, now)
    /\ last_call' = [op |-> "get", key |-> key, at |-> now,
                     ret |-> cache_get_ret(cache, key, now),
                     had |-> key \in DOMAIN cache,
                     size_before |-> Cardinality(DOMAIN cache)]
    /\ UNCHANGED <<now, last_set, old_exp, notCacheVars>>

Tick ==
    /\ now < MaxTime
    /\ now' = now + 1
    /\ UNCHANGED <<cache, last_set, old_exp, last_call, notCacheVars>>

vars == <<cacheVars, storeVars, taskVars, setVars, cmdVars, havVars>>

NextCache ==
    \/ \E key \in Keys, value \in Values, ttl \in Ttls : CallCacheSet(key, value, ttl)
    \/ \E key \in Keys : CallCacheGet(key)
    \/ Tick

SpecCache == Init /\ [][NextCache]_vars

----------------------------------------------------------------------------
(***************************************************************************)
(* SpecStore: threads calling the location store.  save_location and       *)
(* delete_location run step by step (lock, load, truncate, write, unlock); *)
(* get_location takes no lock.                                             *)
(***************************************************************************)
\* A thread calls save_location(user_id, name, entry): it reaches `with _loc_lock`.
StartSave(p, user_id, name, entry) ==
    /\ ppc[p] = "idle"
    /\ calls < MaxCalls
    /\ calls' = calls + 1
    /\ parg' = [parg EXCEPT ![p] = [op |-> "save", user |-> user_id, name |-> name, entry |-> entry]]
    /\ ppc' = [ppc EXCEPT ![p] = "lock"]
    /\ overlapped' = (overlapped \/ \E q \in Threads : ppc[q] # "idle")
    /\ UNCHANGED <<file, loc_lock, pdata, latest, last_op, notStoreVars>>

\* A thread calls delete_location(user_id, name).
StartDelete(p, user_id, name) ==
    /\ ppc[p] = "idle"
    /\ calls < MaxCalls
    /\ calls' = calls + 1
    /\ parg' = [parg EXCEPT ![p] = [op |-> "delete", user |-> user_id, name |-> name, entry |-> NoneEntry]]
    /\ ppc' = [ppc EXCEPT ![p] = "lock"]
    /\ overlapped' = (overlapped \/ \E q \in Threads : ppc[q] # "idle")
    /\ UNCHANGED <<file, loc_lock, pdata, latest, last_op, notStoreVars>>

\* with _loc_lock: acquire.
AcquireLocLock(p) ==
    /\ ppc[p] = "lock"
    /\ lock_free(loc_lock)
    /\ loc_lock' = p
    /\ ppc' = [ppc EXCEPT ![p] = "load"]
    /\ UNCHANGED <<file, parg, pdata, calls, latest, last_op, overlapped, notStoreVars>>

\* save_location lines 77-80: data = _loc_load(); user[name] = entry; data[user_id] = user.
SaveLoad(p) ==
    /\ ppc[p] = "load"
    /\ parg[p].op = "save"
    /\ pdata' = [pdata EXCEPT ![p] =
                    save_data(loc_load(file), parg[p].user, parg[p].name, parg[p].entry)]
    /\ ppc' = [ppc EXCEPT ![p] = "open"]
    /\ UNCHANGED <<file, loc_lock, parg, calls, latest, last_op, overlapped, notStoreVars>>

\* delete_location lines 92-94, the entry is there: del data[user_id][name].
DeleteLoadFound(p) ==
    /\ ppc[p] = "load"
    /\ parg[p].op = "delete"
    /\ delete_found(loc_load(file), parg[p].user, parg[p].name)
    /\ pdata' = [pdata EXCEPT ![p] = delete_data(loc_load(file), parg[p].user, parg[p].name)]
    /\ ppc' = [ppc EXCEPT ![p] = "open"]
    /\ UNCHANGED <<file, loc_lock, parg, calls, latest, last_op, overlapped, notStoreVars>>

\* delete_location lines 92-93 and 97, the entry is not there: the with-block is
\* left, the lock released, and False returned.
DeleteLoadMissing(p) ==
    /\ ppc[p] = "load"
    /\ parg[p].op = "delete"
    /\ ~delete_found(loc_load(file), parg[p].user, parg[p].name)
    /\ loc_lock' = 0
    /\ last_op' = [op |-> "delete", user |-> parg[p].user, name |-> parg[p].name,
                   ret |-> [bool |-> FALSE], was |-> latest[parg[p].user][parg[p].name],
                   quiet |-> TRUE]
    /\ ppc' = [ppc EXCEPT ![p] = "idle"]
    /\ parg' = [parg EXCEPT ![p] = NoArg]
    /\ UNCHANGED <<file, pdata, calls, latest, overlapped, notStoreVars>>

\* _loc_save line 72: open(LOC_PATH, "w").
SaveOpen(p) ==
    /\ ppc[p] = "open"
    /\ file' = loc_save_open(file)
    /\ ppc' = [ppc EXCEPT ![p] = "write"]
    /\ UNCHANGED <<loc_lock, parg, pdata, calls, latest, last_op, overlapped, notStoreVars>>

\* _loc_save line 73: json.dump(data, f, indent=2), and the file is closed.
SaveWrite(p) ==
    /\ ppc[p] = "write"
    /\ file' = loc_save_write(file, pdata[p])
    /\ ppc' = [ppc EXCEPT ![p] = "unlock"]
    /\ UNCHANGED <<loc_lock, parg, pdata, calls, latest, last_op, overlapped, notStoreVars>>

\* The with-block is left: the lock is released and the call returns (None from
\* save_location, True from delete_location).
ReleaseLocLock(p) ==
    /\ ppc[p] = "unlock"
    /\ loc_lock' = IF loc_lock = p THEN 0 ELSE loc_lock
    /\ latest' = [latest EXCEPT ![parg[p].user][parg[p].name] =
                      IF parg[p].op = "delete" THEN Deleted ELSE parg[p].entry]
    /\ last_op' = [op |-> parg[p].op, user |-> parg[p].user, name |-> parg[p].name,
                   ret |-> IF parg[p].op = "delete" THEN [bool |-> TRUE] ELSE NoneEntry,
                   was |-> latest[parg[p].user][parg[p].name],
                   quiet |-> TRUE]
    /\ ppc' = [ppc EXCEPT ![p] = "idle"]
    /\ parg' = [parg EXCEPT ![p] = NoArg]
    /\ pdata' = [pdata EXCEPT ![p] = EmptyDict]
    /\ UNCHANGED <<file, calls, overlapped, notStoreVars>>

\* A thread calls get_location(user_id, name): one read of the file, no lock.
CallGetLocation(p, user_id, name) ==
    /\ ppc[p] = "idle"
    /\ calls < MaxCalls
    /\ calls' = calls + 1
    /\ last_op' = [op |-> "get", user |-> user_id, name |-> name,
                   ret |-> get_location(file, user_id, name),
                   was |-> latest[user_id][name],
                   quiet |-> \A q \in Threads : ppc[q] = "idle"]
    /\ UNCHANGED <<file, loc_lock, ppc, parg, pdata, latest, overlapped, notStoreVars>>

NextStore ==
    \/ \E p \in Threads, u \in Users, n \in Names, e \in Entries : StartSave(p, u, n, e)
    \/ \E p \in Threads, u \in Users, n \in Names : StartDelete(p, u, n)
    \/ \E p \in Threads, u \in Users, n \in Names : CallGetLocation(p, u, n)
    \/ \E p \in Threads :
          \/ AcquireLocLock(p)
          \/ SaveLoad(p)
          \/ DeleteLoadFound(p)
          \/ DeleteLoadMissing(p)
          \/ SaveOpen(p)
          \/ SaveWrite(p)
          \/ ReleaseLocLock(p)

SpecStore == Init /\ [][NextStore]_vars

----------------------------------------------------------------------------
(***************************************************************************)
(* Spec: command tasks on the asyncio event loop.  A task runs from one    *)
(* await to the next without interruption, so cache_get and cache_set      *)
(* (which take and release _cache_lock) are each inside one step; the      *)
(* awaited upstream responses arrive in any order.                         *)
(***************************************************************************)
\* The history of the starting call: it is alone if no other call is in flight.
SoloAtStart(t) ==
    [q \in Tasks |->
        IF q = t
        THEN [on |-> \A r \in Tasks \ {t} : tpc[r] \notin Awaiting, before |-> cache]
        ELSE NotSolo]

\* The cache after an upstream failure: the exception leaves the wrapper before
\* cache_set (lines 251-252, 264-265).
cache_on_failure_stored(c, key, t) ==
    DictSet(c, key, [exp |-> t + OBS_TTL, val |-> "error"])

cache_on_failure(c, key, t) == c

\* Lines 245-251 / 256-264: the key, cache_get, and on a miss the first GET.
CachedStart(t, fn, arg, url, key, ttl) ==
    /\ tpc[t] = "idle"
    /\ fcalls < MaxFetchCalls
    /\ lock_free(cache_lock)
    /\ fcalls' = fcalls + 1
    /\ tcall' = [tcall EXCEPT ![t] =
                     [fn |-> fn, arg |-> arg, url |-> url, key |-> key, ttl |-> ttl]]
    /\ cache' = cache_get_map(cache, key, now)
    /\ LET hit == cache_get_ret(cache, key, now) IN
       IF hit # None
       THEN /\ tpc' = [tpc EXCEPT ![t] = "done"]
            /\ tret' = [tret EXCEPT ![t] = hit]
            /\ tissued' = [tissued EXCEPT ![t] = 0]
       ELSE /\ tpc' = [tpc EXCEPT ![t] = IF fn = "obs" THEN "await_obs" ELSE "await_points"]
            /\ tret' = [tret EXCEPT ![t] = None]
            /\ tissued' = [tissued EXCEPT ![t] = 1]
    /\ solo' = SoloAtStart(t)
    /\ UNCHANGED <<now, last_set, old_exp, last_call, cache_lock, tlocal, storeVars, setVars, havVars>>

\* fetch_latest_obs_cached(station_id, ttl=300) is called.
ObsCachedStart(t, station_id) ==
    CachedStart(t, "obs", <<station_id>>, obs_url(station_id), obs_key(station_id), OBS_TTL)

\* fetch_forecast_periods_cached(lat, lon, ttl=900) is called.
FcCachedStart(t, lat, lon) ==
    CachedStart(t, "fc", <<lat, lon>>, points_url(lat, lon), fc_key(lat, lon), FC_TTL)

\* Lines 251-253 / 264-266: the awaited fetch returns, cache_set, return.
StorePayload(t) ==
    LET key == tcall[t].key
        payload == Payload(tcall[t].url, now)
    IN  /\ lock_free(cache_lock)
        /\ cache' = cache_set_map(cache, key, payload, tcall[t].ttl, now)
        /\ last_set' = [last_set EXCEPT ![key] =
                           [val |-> payload, ttl |-> tcall[t].ttl, at |-> now]]
        /\ tret' = [tret EXCEPT ![t] = payload]
        /\ tpc' = [tpc EXCEPT ![t] = "done"]
        /\ UNCHANGED <<now, old_exp, last_call, cache_lock, tcall, tissued, tlocal, fcalls,
                       solo, storeVars, setVars, havVars>>

\* fetch_latest_obs: the GET of the latest observation answers 2xx.
ObsResponse(t) ==
    /\ tpc[t] = "await_obs"
    /\ StorePayload(t)

\* get_forecast_url: the points GET answers 2xx; the forecast GET is issued.
FcPointsResponse(t) ==
    /\ tpc[t] = "await_points"
    /\ tpc' = [tpc EXCEPT ![t] = "await_forecast"]
    /\ tissued' = [tissued EXCEPT ![t] = 2]
    /\ UNCHANGED <<cacheVars, cache_lock, tcall, tret, tlocal, fcalls, solo, storeVars, setVars, havVars>>

\* fetch_forecast_periods: the forecast GET answers 2xx.
FcForecastResponse(t) ==
    /\ tpc[t] = "await_forecast"
    /\ StorePayload(t)

\* An awaited GET fails (raise_for_status, a timeout, a malformed body): the
\* exception propagates out of the wrapper.
UpstreamFails(t) ==
    /\ tpc[t] \in Awaiting
    /\ tpc' = [tpc EXCEPT ![t] = "failed"]
    /\ cache' = cache_on_failure(cache, tcall[t].key, now)
    /\ UNCHANGED <<now, last_set, old_exp, last_call, cache_lock, tcall, tret, tissued,
                   tlocal, fcalls, solo, storeVars, setVars, havVars>>

\* The caller has the result (or the exception); the task is free for a new command.
Return(t) ==
    /\ tpc[t] \in {"done", "failed"}
    /\ tpc' = [tpc EXCEPT ![t] = "idle"]
    /\ tcall' = [tcall EXCEPT ![t] = NoFetch]
    /\ tret' = [tret EXCEPT ![t] = None]
    /\ tissued' = [tissued EXCEPT ![t] = 0]
    /\ solo' = [solo EXCEPT ![t] = NotSolo]
    /\ UNCHANGED <<cacheVars, cache_lock, tlocal, fcalls, storeVars, setVars, havVars>>

\* time.time() moves on to the next sampled second.
Advance ==
    /\ \E n \in TimePoints : n > now
    /\ now' = CHOOSE n \in TimePoints : n > now /\ \A m \in TimePoints : m > now => n <= m
    /\ UNCHANGED <<cache, last_set, old_exp, last_call, taskVars, storeVars, setVars, havVars>>

Next ==
    \/ \E t \in Tasks, s \in StationIds : ObsCachedStart(t, s) /\ UNCHANGED cmdVars
    \/ \E t \in Tasks, p \in Points : FcCachedStart(t, p[1], p[2]) /\ UNCHANGED cmdVars
    \/ \E t \in Tasks : ObsResponse(t) /\ UNCHANGED cmdVars
    \/ \E t \in Tasks : FcPointsResponse(t) /\ UNCHANGED cmdVars
    \/ \E t \in Tasks : FcForecastResponse(t) /\ UNCHANGED cmdVars
    \/ \E t \in Tasks : UpstreamFails(t) /\ UNCHANGED cmdVars
    \/ \E t \in Tasks : Return(t) /\ UNCHANGED cmdVars
    \/ Advance /\ UNCHANGED cmdVars

Spec == InitFetch /\ [][Next]_vars

\* SpecFc: the same tasks calling fetch_forecast_periods_cached only, for
\* points that round to the same and to different thousandths.
NextFc ==
    \/ \E t \in Tasks, p \in FcPoints : FcCachedStart(t, p[1], p[2]) /\ UNCHANGED cmdVars
    \/ \E t \in Tasks : FcPointsResponse(t) /\ UNCHANGED cmdVars
    \/ \E t \in Tasks : FcForecastResponse(t) /\ UNCHANGED cmdVars
    \/ \E t \in Tasks : UpstreamFails(t) /\ UNCHANGED cmdVars
    \/ \E t \in Tasks : Return(t) /\ UNCHANGED cmdVars
    \/ Advance /\ UNCHANGED cmdVars

SpecFc == InitFetch /\ [][NextFc]_vars

\* SpecEntries: the same tasks calling both wrappers, for stations and points
\* with different keys; "kmwl" is upper-cased and 32.7934 rounded by the key.
EntryStations == {"kmwl", "KDFW"}
EntryPoints == { <<327934, -980891>>, <<328998, -970403>> }

NextEntries ==
    \/ \E t \in Tasks, s \in EntryStations : ObsCachedStart(t, s) /\ UNCHANGED cmdVars
    \/ \E t \in Tasks, p \in EntryPoints : FcCachedStart(t, p[1], p[2]) /\ UNCHANGED cmdVars
    \/ \E t \in Tasks : ObsResponse(t) /\ UNCHANGED cmdVars
    \/ \E t \in Tasks : FcPointsResponse(t) /\ UNCHANGED cmdVars
    \/ \E t \in Tasks : FcForecastResponse(t) /\ UNCHANGED cmdVars
    \/ \E t \in Tasks : UpstreamFails(t) /\ UNCHANGED cmdVars
    \/ \E t \in Tasks : Return(t) /\ UNCHANGED cmdVars
    \/ Advance /\ UNCHANGED cmdVars

SpecEntries == InitFetch /\ [][NextEntries]_vars

----------------------------------------------------------------------------
(***************************************************************************)
(* SpecThreads: fetch_latest_obs_cached dispatched on worker threads.      *)
(* cache_get and cache_set run statement by statement: time.time(), the    *)
(* acquire of _cache_lock, the map operation, the release.                 *)
(***************************************************************************)
InMap == {"get_map", "set_map"}

\* _cache_lock when cache_get's with-block is left (lines 120-128).
lock_after_get_held(t, hit) == IF hit = None THEN t ELSE 0

lock_after_get(t, hit) == 0

\* _cache_lock when cache_set's with-block is left (lines 132-133).
lock_after_set(t) == 0

\* fetch_latest_obs_cached is called; cache_get line 119: now = time.time().
ThreadCall(t, station_id) ==
    /\ tpc[t] = "idle"
    /\ fcalls < MaxFetchCalls
    /\ fcalls' = fcalls + 1
    /\ tcall' = [tcall EXCEPT ![t] = [fn |-> "obs", arg |-> <<station_id>>,
                                      url |-> obs_url(station_id),
                                      key |-> obs_key(station_id), ttl |-> OBS_TTL]]
    /\ tlocal' = [tlocal EXCEPT ![t] = now]
    /\ tpc' = [tpc EXCEPT ![t] = "get_lock"]
    /\ UNCHANGED <<cacheVars, cache_lock, tret, tissued, solo, storeVars, setVars, havVars>>

\* cache_get line 120 / cache_set line 132: with _cache_lock.
ThreadAcquire(t) ==
    /\ tpc[t] \in {"get_lock", "set_lock"}
    /\ lock_free(cache_lock)
    /\ cache_lock' = t
    /\ tpc' = [tpc EXCEPT ![t] = IF tpc[t] = "get_lock" THEN "get_map" ELSE "set_map"]
    /\ UNCHANGED <<cacheVars, tcall, tret, tissued, tlocal, fcalls, solo, storeVars, setVars, havVars>>

\* cache_get lines 121-128 under the lock, then lines 247-251 of the wrapper.
ThreadGetMap(t) ==
    /\ tpc[t] = "get_map"
    /\ cache' = cache_get_map(cache, tcall[t].key, tlocal[t])
    /\ LET hit == cache_get_ret(cache, tcall[t].key, tlocal[t]) IN
       /\ cache_lock' = lock_after_get(t, hit)
       /\ tret' = [tret EXCEPT ![t] = hit]
       /\ tpc' = [tpc EXCEPT ![t] = IF hit # None THEN "done" ELSE "await_obs"]
       /\ tissued' = [tissued EXCEPT ![t] = IF hit # None THEN 0 ELSE 1]
    /\ UNCHANGED <<now, last_set, old_exp, last_call, tcall, tlocal, fcalls, solo, storeVars, setVars, havVars>>

\* The awaited GET answers 2xx; cache_set line 131: exp = time.time() + ttl_seconds.
ThreadResponse(t) ==
    /\ tpc[t] = "await_obs"
    /\ tret' = [tret EXCEPT ![t] = Payload(tcall[t].url, now)]
    /\ tlocal' = [tlocal EXCEPT ![t] = now]
    /\ tpc' = [tpc EXCEPT ![t] = "set_lock"]
    /\ UNCHANGED <<cacheVars, cache_lock, tcall, tissued, fcalls, solo, storeVars, setVars, havVars>>

\* cache_set line 133 under the lock, then the wrapper returns.
ThreadSetMap(t) ==
    /\ tpc[t] = "set_map"
    /\ cache' = cache_set_map(cache, tcall[t].key, tret[t], tcall[t].ttl, tlocal[t])
    /\ last_set' = [last_set EXCEPT ![tcall[t].key] =
                       [val |-> tret[t], ttl |-> tcall[t].ttl, at |-> tlocal[t]]]
    /\ cache_lock' = lock_after_set(t)
    /\ tpc' = [tpc EXCEPT ![t] = "done"]
    /\ UNCHANGED <<now, old_exp, last_call, tcall, tret, tissued, tlocal, fcalls, solo,
                   storeVars, setVars, havVars>>

\* The awaited GET fails: the exception propagates out of the wrapper.
ThreadFails(t) ==
    /\ tpc[t] = "await_obs"
    /\ tpc' = [tpc EXCEPT ![t] = "failed"]
    /\ UNCHANGED <<cacheVars, cache_lock, tcall, tret, tissued, tlocal, fcalls, solo,
                   storeVars, setVars, havVars>>

NextThreads ==
    \/ \E t \in Tasks, s \in StationIds : ThreadCall(t, s) /\ UNCHANGED cmdVars
    \/ \E t \in Tasks : ThreadAcquire(t) /\ UNCHANGED cmdVars
    \/ \E t \in Tasks : ThreadGetMap(t) /\ UNCHANGED cmdVars
    \/ \E t \in Tasks : ThreadResponse(t) /\ UNCHANGED cmdVars
    \/ \E t \in Tasks : ThreadSetMap(t) /\ UNCHANGED cmdVars
    \/ \E t \in Tasks : ThreadFails(t) /\ UNCHANGED cmdVars
    \/ \E t \in Tasks : Return(t) /\ UNCHANGED cmdVars
    \/ Advance /\ UNCHANGED cmdVars

SpecThreads == InitFetch /\ [][NextThreads]_vars

(***************************************************************************)
(* SpecSet: wx_set commands on the event loop, one at a time.  Each action *)
(* runs the command from one await to the next.                            *)
(***************************************************************************)
notSetVars == <<cacheVars, taskVars, loc_lock, ppc, parg, pdata, calls, latest, last_op,
                overlapped, cmdVars, havVars>>

\* wx_set up to its first await after defer: the units check, then the geocoder GET.
SetStart(user, location, units) ==
    /\ spc \in {"idle", "done"}
    /\ scmds < MaxSetCmds
    /\ scmds' = scmds + 1
    /\ sarg' = [user |-> user, location |-> location, units |-> units]
    /\ sgeo' = NoGeo
    /\ slookup' = NoLookup
    /\ sres' = None
    /\ IF ~units_ok(lower(units))
       THEN smsgs' = <<MsgUnits>> /\ spc' = "done" /\ sgets' = <<>>
       ELSE smsgs' = <<>> /\ spc' = "await_geocode" /\ sgets' = <<Get("geocode")>>
    /\ UNCHANGED <<file, notSetVars>>

\* geocode_freeform: the GET answers 2xx with an empty list.
GeocodeEmpty ==
    /\ spc = "await_geocode"
    /\ smsgs' = Append(smsgs, MsgNotFound(sarg.location))
    /\ sgets' = Answered(sgets, 200)
    /\ spc' = "done"
    /\ UNCHANGED <<sarg, sgeo, slookup, sres, scmds, file, notSetVars>>

\* geocode_freeform returns (lat, lon, name); find_nearest_nws_station sends the
\* points GET.
GeocodeResponse(geo) ==
    /\ spc = "await_geocode"
    /\ sgeo' = geo
    /\ sgets' = Append(Answered(sgets, 200), Get("points"))
    /\ spc' = "await_points"
    /\ UNCHANGED <<sarg, slookup, sres, smsgs, scmds, file, notSetVars>>

\* The points metadata has no observationStations: find_nearest_nws_station
\* returns None (lines 308-309) and wx_set reports it.
PointsNoStations ==
    /\ spc = "await_points"
    /\ slookup' = [got |-> "no_ref", features |-> <<>>]
    /\ sgets' = Answered(sgets, 200)
    /\ sres' = None
    /\ IF not_station(None)
       THEN smsgs' = Append(smsgs, MsgNoStation(sgeo.name)) /\ file' = file
       ELSE /\ file' = loc_save_write(loc_save_open(file),
                           save_data(loc_load(file), sarg.user, "home",
                                     home_entry(None, sgeo, lower(sarg.units))))
            /\ smsgs' = Append(smsgs, MsgHomeSet(sgeo.name, None))
    /\ spc' = "done"
    /\ UNCHANGED <<sarg, sgeo, scmds, notSetVars>>

\* The points metadata names the observationStations collection: the second GET.
PointsResponse ==
    /\ spc = "await_points"
    /\ sgets' = Append(Answered(sgets, 200), Get("stations"))
    /\ spc' = "await_stations"
    /\ UNCHANGED <<sarg, sgeo, slookup, sres, smsgs, scmds, file, notSetVars>>

\* The collection arrives: the scan, then wx_set's lines 506-522.
StationsResponse(features) ==
    /\ spc = "await_stations"
    /\ sgets' = Answered(sgets, 200)
    /\ LET station == nearest_of(features, sgeo.lat, sgeo.lon)
       IN  /\ slookup' = [got |-> "features", features |-> features]
           /\ sres' = station
           /\ IF station = Raised   \* caught by except Exception, line 525
              THEN smsgs' = Append(smsgs, MsgUnexpected) /\ file' = file
              ELSE IF not_station(station)
              THEN smsgs' = Append(smsgs, MsgNoStation(sgeo.name)) /\ file' = file
              ELSE /\ file' = loc_save_write(loc_save_open(file),
                                  save_data(loc_load(file), sarg.user, "home",
                                            home_entry(station, sgeo, lower(sarg.units))))
                   /\ smsgs' = Append(smsgs, MsgHomeSet(sgeo.name, station))
    /\ spc' = "done"
    /\ UNCHANGED <<sarg, sgeo, scmds, notSetVars>>

\* An awaited GET answers 4xx / 5xx: raise_for_status, caught at line 522.
SetHttpError(status) ==
    /\ spc \in {"await_geocode", "await_points", "await_stations"}
    /\ smsgs' = Append(smsgs, MsgHttpError(status))
    /\ sgets' = Answered(sgets, status)
    /\ spc' = on_http_error(spc)
    /\ UNCHANGED <<sarg, sgeo, slookup, sres, scmds, file, notSetVars>>

NextSet ==
    \/ \E user \in SetUsers, units \in UnitsArgs : SetStart(user, "Mineral Wells, TX", units)
    \/ GeocodeEmpty
    \/ \E geo \in GeoResults : GeocodeResponse(geo)
    \/ PointsNoStations
    \/ PointsResponse
    \/ \E features \in FeatureLists : StationsResponse(features)
    \/ \E status \in HttpErrors : SetHttpError(status)

SpecSet == Init /\ [][NextSet]_vars


(***************************************************************************)
(* SpecQuery: wx_save, wxnow and wxforecast commands on the event loop.    *)
(* wx_save has no await before its save; a query resolves the location and *)
(* reaches the cached wrapper's first await in one step.                   *)
(***************************************************************************)
\* The tasks that run queries in SpecQuery.
QueryTasks == {1}

notQueryVars == <<setVars, loc_lock, ppc, parg, pdata, calls, latest, last_op, overlapped,
                  havVars>>

\* wx_save, lines 469-487.
WxSave(user, station_id, lat, lon, units) ==
    LET e == wx_save_entry(station_id, lat, lon, units)
    IN  /\ IF ~units_ok(e.units)
           THEN /\ wsave' = [user |-> user, units |-> units, entry |-> e, saved |-> FALSE,
                             msg |-> MsgUnits]
                /\ file' = file
           ELSE /\ file' = loc_save_write(loc_save_open(file),
                               save_data(loc_load(file), user, "home", e))
                /\ wsave' = [user |-> user, units |-> units, entry |-> e, saved |-> TRUE,
                             msg |-> MsgSaved(e)]
        /\ UNCHANGED <<cacheVars, taskVars, tcmd, qmsgs, notQueryVars>>

\* wxnow, lines 436-439, up to the wrapper's first await (or its cache hit).
WxNow(t, user) ==
    LET loc == resolve_user_location(file, user)
    IN  /\ ObsCachedStart(t, loc.st)
        /\ tcmd' = [tcmd EXCEPT ![t] =
                       [cmd |-> "wxnow", user |-> user, loc |-> loc, err |-> 0, gets |-> 0]]
        /\ qmsgs' = [qmsgs EXCEPT ![t] = <<>>]
        /\ UNCHANGED wsave

\* wxforecast, lines 449-452 and build_forecast_embed.
WxForecast(t, user) ==
    LET loc == resolve_user_location(file, user)
    IN  /\ FcCachedStart(t, loc.la, loc.lo)
        /\ tcmd' = [tcmd EXCEPT ![t] =
                       [cmd |-> "wxforecast", user |-> user, loc |-> loc, err |-> 0, gets |-> 0]]
        /\ qmsgs' = [qmsgs EXCEPT ![t] = <<>>]
        /\ UNCHANGED wsave

\* An awaited GET of the query answers 4xx / 5xx: raise_for_status raises
\* HTTPStatusError out of the wrapper.
QueryHttpError(t, status) ==
    /\ tcmd[t].cmd # "none"
    /\ UpstreamFails(t)
    /\ tcmd' = [tcmd EXCEPT ![t].err = status]
    /\ UNCHANGED <<qmsgs, wsave>>

\* The command's last await: followup.send of the embed (lines 440-441, 452-453)
\* or of the error (lines 442-443, 454-455).
QuerySend(t) ==
    /\ tcmd[t].cmd # "none"
    /\ Return(t)
    /\ qmsgs' = [qmsgs EXCEPT ![t] =
                    Append(@, IF tpc[t] = "done" THEN MsgEmbed(tret[t])
                              ELSE MsgNwsError(tcmd[t].err))]
    /\ tcmd' = [tcmd EXCEPT ![t].gets = tissued[t]]
    /\ UNCHANGED wsave

NextQuery ==
    \/ \E user \in Users, a \in SaveArgs, units \in SaveUnits :
          WxSave(user, a[1], a[2], a[3], units)
    \/ \E t \in QueryTasks, user \in Users : WxNow(t, user)
    \/ \E t \in QueryTasks, user \in Users : WxForecast(t, user)
    \/ \E t \in QueryTasks : ObsResponse(t) /\ UNCHANGED cmdVars
    \/ \E t \in QueryTasks : FcPointsResponse(t) /\ UNCHANGED cmdVars
    \/ \E t \in QueryTasks : FcForecastResponse(t) /\ UNCHANGED cmdVars
    \/ \E t \in QueryTasks, status \in HttpErrors : QueryHttpError(t, status)
    \/ \E t \in QueryTasks : QuerySend(t)

SpecQuery == InitFetch /\ [][NextQuery]_vars

(***************************************************************************)
(* SpecUpstream: the commands that call upstream, wx_set and a query task, *)
(* interleaved on the event loop.                                          *)
(***************************************************************************)
\* The station collections of SpecHome.
K00 == [sid |-> "kmwl", geom |-> "object", coords |-> <<0, 0>>]
CmdFeatureLists == { <<>>, <<A00>>, <<B11, A00>>, <<K00>>, <<NullGeom>> }

\* The collections of SpecUpstream: none valid, and two candidates.
UpstreamFeatureLists == { <<>>, <<B11, A00>> }

NextUpstream ==
    \/ \E user \in SetUsers, units \in UnitsArgs : SetStart(user, "Mineral Wells, TX", units)
    \/ GeocodeEmpty
    \/ \E geo \in GeoResults : GeocodeResponse(geo)
    \/ PointsNoStations
    \/ PointsResponse
    \/ \E features \in UpstreamFeatureLists : StationsResponse(features)
    \/ \E status \in HttpErrors : SetHttpError(status)
    \/ \E t \in QueryTasks, user \in Users : WxNow(t, user)
    \/ \E t \in QueryTasks, user \in Users : WxForecast(t, user)
    \/ \E t \in QueryTasks : ObsResponse(t) /\ UNCHANGED cmdVars
    \/ \E t \in QueryTasks : FcPointsResponse(t) /\ UNCHANGED cmdVars
    \/ \E t \in QueryTasks : FcForecastResponse(t) /\ UNCHANGED cmdVars
    \/ \E t \in QueryTasks, status \in HttpErrors : QueryHttpError(t, status)
    \/ \E t \in QueryTasks : QuerySend(t)

SpecUpstream == InitFetch /\ [][NextUpstream]_vars

(***************************************************************************)
(* SpecHome: the commands that write the store, wx_save and wx_set; a      *)
(* wx_save may run while wx_set is suspended on an upstream call.          *)
(***************************************************************************)
NextHome ==
    \/ \E user \in Users, a \in SaveArgs, units \in SaveUnits :
          WxSave(user, a[1], a[2], a[3], units)
    \/ \E user \in SetUsers, units \in UnitsArgs : SetStart(user, "Mineral Wells, TX", units)
    \/ GeocodeEmpty
    \/ \E geo \in GeoResults : GeocodeResponse(geo)
    \/ PointsNoStations
    \/ PointsResponse
    \/ \E features \in CmdFeatureLists : StationsResponse(features)
    \/ \E status \in HttpErrors : SetHttpError(status)

SpecHome == Init /\ [][NextHome]_vars

(***************************************************************************)
(* SpecHav: _haversine_km applied to every pair of grid points.            *)
(***************************************************************************)
InitHav ==
    /\ InitCacheVars /\ InitStoreVars /\ InitTaskVars /\ InitSetVars /\ InitCmdVars
    /\ hav_in \in HavPoints \X HavPoints
    /\ hav_out = NoDist

\* The three calls for the pair A, B.
HavCall ==
    /\ hav_out = NoDist
    /\ LET A == hav_in[1]
           B == hav_in[2]
       IN  hav_out' = [ab |-> haversine_km(A[1], A[2], B[1], B[2]),
                       ba |-> haversine_km(B[1], B[2], A[1], A[2]),
                       aa |-> haversine_km(A[1], A[2], A[1], A[2])]
    /\ UNCHANGED <<hav_in, cacheVars, storeVars, taskVars, setVars, cmdVars>>

\* Another pair is asked for.
HavAsk(A, B) ==
    /\ hav_out # NoDist
    /\ hav_in' = <<A, B>>
    /\ hav_out' = NoDist
    /\ UNCHANGED <<cacheVars, storeVars, taskVars, setVars, cmdVars>>

NextHav ==
    \/ HavCall
    \/ \E A, B \in HavPoints : HavAsk(A, B)

SpecHav == InitHav /\ [][NextHav]_vars

----------------------------------------------------------------------------
\* What a get_location must return given the history of the pair.
Expected(h) == IF h \in Entries THEN h ELSE NoneEntry

\* C4: save_location(u, n, e) followed by get_location(u, n) returns exactly e; a
\* following delete_location(u, n) returns True and get_location(u, n) after it
\* returns None.
C4_SaveGetDelete ==
    /\ (last_op.op = "get" /\ last_op.quiet) => last_op.ret = Expected(last_op.was)
    /\ last_op.op = "delete" => last_op.ret = [bool |-> last_op.was \in Entries]

C4_Witness ==
    /\ last_op.op = "get"
    /\ last_op.quiet
    /\ last_op.was = Deleted
    /\ last_op.ret = NoneEntry
    /\ last_op.user = "42"
    /\ last_op.name = "home"

\* C5: for any interleaving of concurrent save_location and delete_location
\* calls no update is lost: once the calls have returned, every (user, name)
\* reads back as its latest completed call left it.
C5_NoLostUpdate ==
    (\A p \in Threads : ppc[p] = "idle") =>
        \A u \in Users, n \in Names : get_location(file, u, n) = Expected(latest[u][n])

C5_Witness ==
    /\ \A p \in Threads : ppc[p] = "idle"
    /\ overlapped
    /\ calls = 2
    /\ latest["42"]["home"] \in Entries
    /\ latest["7"]["home"] \in Entries
    /\ latest["42"]["home"] # latest["7"]["home"]
    /\ get_location(file, "42", "home") = latest["42"]["home"]
    /\ get_location(file, "7", "home") = latest["7"]["home"]

----------------------------------------------------------------------------
\* The TTL the wrappers pass for a call.
TtlOf(call) == IF call.fn = "obs" THEN OBS_TTL ELSE FC_TTL

\* C6 as stated: when the upstream call fails on a cache miss, the cache map is
\* the same after the failed call as before it.
C6_MapSameAfterFailure ==
    \A t \in Tasks :
        (tpc[t] = "failed" /\ solo[t].on) => cache = solo[t].before

\* C6, amended: the failed call writes nothing; the map after it is the map
\* before it less the expired entry of the key, which the miss's cache_get
\* evicted, so the key is absent and the next call for it misses again.
C6_NoWriteOnFailure ==
    \A t \in Tasks :
        (tpc[t] = "failed" /\ solo[t].on) =>
            /\ cache = DictPop(solo[t].before, tcall[t].key)
            /\ tcall[t].key \in DOMAIN solo[t].before =>
                   solo[t].before[tcall[t].key].exp <= now
            /\ cache_get_ret(cache, tcall[t].key, now) = None
            /\ tret[t] = None

C6_Witness ==
    \E t \in Tasks :
        /\ tpc[t] = "failed"
        /\ solo[t].on
        /\ tcall[t].fn = "fc"
        /\ tissued[t] = 2
        /\ tcall[t].key \in DOMAIN solo[t].before
        /\ Cardinality(DOMAIN solo[t].before) = 2
        /\ Cardinality(DOMAIN cache) = 1

----------------------------------------------------------------------------
\* C8: the cache lock is held only for the map operation inside cache_get and
\* cache_set: no two threads are inside a map read or write at the same time,
\* the holder is always a thread inside its map operation, and a task suspended
\* awaiting an upstream response never holds it, so the lock is free whenever no
\* thread is at that moment inside its own map operation.
C8_LockOnlyForMapOp ==
    /\ Cardinality({ t \in Tasks : tpc[t] \in InMap }) <= 1
    /\ \A t \in Tasks : (cache_lock = t) <=> (tpc[t] \in InMap)
    /\ cache_lock \in Tasks \cup {0}
    /\ (\E t \in Tasks : tpc[t] \in Awaiting) =>
           /\ \A t \in Tasks : tpc[t] \in Awaiting => cache_lock # t
           /\ (\A t \in Tasks : tpc[t] \notin InMap) => cache_lock = 0

C8_Witness ==
    /\ tpc[1] = "await_obs"
    /\ tpc[2] = "set_map"
    /\ cache_lock = 2
    /\ tcall[1].key = tcall[2].key

----------------------------------------------------------------------------
\* The expiry of the latest cache_set of key.
LastExp(key) == last_set[key].at + last_set[key].ttl

\* C1: cache_set(k, v, ttl > 0) followed by cache_get(k) with no time elapsing
\* returns exactly v, whatever the cache held before.
C1_SetThenGet ==
    (/\ last_call.op = "get"
     /\ last_set[last_call.key] # NoSet
     /\ last_set[last_call.key].ttl > 0
     /\ last_call.at = last_set[last_call.key].at)
    => last_call.ret = last_set[last_call.key].val

C1_Witness ==
    /\ last_call.op = "get"
    /\ last_set[last_call.key].ttl > 0
    /\ last_call.at = last_set[last_call.key].at
    /\ last_call.at > 0
    /\ old_exp[last_call.key] >= 0
    /\ last_call.ret = "v2"

\* C2: after cache_set(k, v, ttl) at time t, a cache_get(k) at now >= t + ttl
\* returns None and removes k from the map (the size no longer counts k); a
\* cache_get(k) at now < t + ttl returns v and leaves the entry in place.
C2_ExpiryEvicts ==
    (last_call.op = "get" /\ last_set[last_call.key] # NoSet) =>
        LET k == last_call.key IN
        IF last_call.at >= LastExp(k)
        THEN /\ last_call.ret = None
             /\ k \notin DOMAIN cache
             /\ Cardinality(DOMAIN cache) =
                    last_call.size_before - (IF last_call.had THEN 1 ELSE 0)
        ELSE /\ last_call.ret = last_set[k].val
             /\ k \in DOMAIN cache
             /\ cache[k] = [exp |-> LastExp(k), val |-> last_set[k].val]
             /\ Cardinality(DOMAIN cache) = last_call.size_before

C2_Witness ==
    /\ last_call.op = "get"
    /\ last_set[last_call.key] # NoSet
    /\ last_set[last_call.key].ttl > 0
    /\ last_call.at >= LastExp(last_call.key)
    /\ last_call.had
    /\ last_call.size_before = 2
    /\ Cardinality(DOMAIN cache) = 1

\* C3: a cache_set on an existing key replaces both the value and the expiry:
\* cache_get returns the second value until the second write's expiry and None at
\* and after it, even while the first write's expiry is still in the future.
C3_OverwriteReplaces ==
    \A k \in Keys :
        old_exp[k] >= 0 =>
            /\ k \in DOMAIN cache =>
                   cache[k] = [exp |-> LastExp(k), val |-> last_set[k].val]
            /\ (last_call.op = "get" /\ last_call.key = k) =>
                   /\ last_call.at < LastExp(k) => last_call.ret = last_set[k].val
                   /\ last_call.at >= LastExp(k) => last_call.ret = None

C3_Witness ==
    /\ last_call.op = "get"
    /\ old_exp[last_call.key] > last_call.at
    /\ last_call.at >= LastExp(last_call.key)
    /\ last_set[last_call.key].ttl > 0
    /\ last_call.ret = None

----------------------------------------------------------------------------
\* The valid candidates of the list the lookup fetched, and the distance of
\* candidate i to the query point.
ValidAt(fs) == { i \in 1..Len(fs) : is_valid(fs[i]) }
DistAt(fs, i) == haversine_km(sgeo.lat, sgeo.lon, fs[i].coords[2], fs[i].coords[1])

\* The scan reaches its end: every feature has a geometry object and a
\* coordinates list that is empty or a pair.
Scanned(fs) == \A i \in 1..Len(fs) : ~raises(fs[i])

C10_NoCandidates ==
    (/\ spc = "done"
     /\ \/ slookup.got = "no_ref"
        \/ slookup.got = "features" /\ slookup.features = <<>>) =>
        /\ sres = None
        /\ smsgs = <<MsgNoStation(sgeo.name)>>

C10_Witness ==
    /\ spc = "done"
    /\ slookup.got = "features"
    /\ slookup.features = <<>>
    /\ sres = None
    /\ smsgs = <<MsgNoStation("Tenth")>>

\* A candidate that has a station identifier and a coordinate pair.
HasIdAndPair(f) == f.sid # "" /\ f.sid # None /\ f.geom = "object" /\ Len(f.coords) = 2

\* C11: every candidate that lacks a station identifier or a coordinate pair is
\* skipped: the result is never an error, it is None when no candidate has both,
\* and otherwise the first nearest of the candidates that have both.
C11_InvalidSkipped ==
    (spc = "done" /\ slookup.got = "features") =>
        LET fs == slookup.features
            ok == { i \in 1..Len(fs) : HasIdAndPair(fs[i]) }
        IN  /\ sres # Raised
            /\ ok = {} => sres = None
            /\ ok # {} =>
                  \E i \in ok :
                      /\ sres = fs[i].sid
                      /\ \A j \in ok : DistAt(fs, i) <= DistAt(fs, j)
                      /\ \A j \in ok : j < i => DistAt(fs, j) > DistAt(fs, i)

\* A candidate with "geometry": null after a valid one: the scan raises and wx_set
\* answers with the generic error.
C11_Witness ==
    /\ spc = "done"
    /\ slookup.got = "features"
    /\ slookup.features = <<A00, NullGeom>>
    /\ sres = Raised
    /\ smsgs = <<MsgUnexpected>>

----------------------------------------------------------------------------
\* round(lat, 3) and round(lon, 3) of the two points are equal numbers.
SameRounded(p, q) == round3(p[1]) = round3(q[1]) /\ round3(p[2]) = round3(q[2])

\* C12: a call of fetch_forecast_periods_cached that starts while the entry of
\* an earlier call is in the cache and not expired uses the earlier call's key
\* when the two points round to the same thousandths, and is then a hit that
\* issues no upstream call; it uses another key when the rounded points differ.
C12_RoundedKey ==
    [][\A t, r \in Tasks :
        (/\ t # r
         /\ tpc[t] = "idle" /\ tpc'[t] # "idle" /\ tcall'[t].fn = "fc"
         /\ tpc[r] = "done" /\ tcall[r].fn = "fc"
         /\ tcall[r].key \in DOMAIN cache
         /\ now < cache[tcall[r].key].exp) =>
            IF SameRounded(tcall[r].arg, tcall'[t].arg)
            THEN /\ tcall'[t].key = tcall[r].key
                 /\ tpc'[t] = "done"
                 /\ tissued'[t] = 0
                 /\ tret'[t] = cache[tcall[r].key].val
            ELSE tcall'[t].key # tcall[r].key
    ]_vars

\* The entry of the call for latitude 0.0001 is in the cache; the call for
\* latitude -0.0001 missed and waits for upstream.
C12_Witness ==
    /\ tpc[1] = "done" /\ tcall[1].arg = <<1, -980891>> /\ tissued[1] = 2
    /\ tcall[1].key \in DOMAIN cache /\ now < cache[tcall[1].key].exp
    /\ tpc[2] = "await_points" /\ tcall[2].arg = <<-1, -980891>>
    /\ tcall[2].key # tcall[1].key
    /\ SameRounded(tcall[1].arg, tcall[2].arg)

----------------------------------------------------------------------------
\* C13: a wxnow / wxforecast command of user u calls the cached wrapper with the
\* station / the coordinates of u's "home" as the file holds it when the command
\* runs, with the environment's defaults when the file holds none; a wx_save
\* that saved leaves its entry as the user's "home" for the queries after it and
\* leaves every other user's "home" as it was.
C13_SavedLocationUsed ==
    [][/\ \A t \in Tasks :
            (tcall[t] = NoFetch /\ tcall'[t] # NoFetch) =>
                LET e == get_location(file, tcmd'[t].user, "home")
                    st == IF e = NoneEntry THEN STATION_ID ELSE e.station_id
                    la == IF e = NoneEntry THEN LAT ELSE e.lat
                    lo == IF e = NoneEntry THEN LON ELSE e.lon
                IN  /\ tcmd'[t].cmd = "wxnow" => tcall'[t].arg = <<st>>
                    /\ tcmd'[t].cmd = "wxforecast" => tcall'[t].arg = <<la, lo>>
       /\ (wsave' # wsave /\ wsave'.saved) =>
            /\ get_location(file', wsave'.user, "home") = wsave'.entry
            /\ \A v \in Users \ {wsave'.user} :
                   get_location(file', v, "home") = get_location(file, v, "home")
    ]_vars

\* User 7 has saved KDFW and user 42 the defaults with other units; 7's forecast
\* query is under way for 7's saved point.
C13_Witness ==
    /\ tcmd[1].cmd = "wxforecast" /\ tcmd[1].user = "7"
    /\ tpc[1] = "await_points"
    /\ tcall[1].arg = <<328998, -970403>>
    /\ get_location(file, "7", "home") # NoneEntry
    /\ get_location(file, "7", "home").lat = 328998
    /\ get_location(file, "42", "home") # NoneEntry
    /\ get_location(file, "42", "home").lat = LAT

----------------------------------------------------------------------------
\* The GETs one query command may issue: the observation, or the point and then
\* its forecast.
MaxGets(c) == IF c.cmd = "wxforecast" THEN 2 ELSE 1

\* C14: no retries.  A command issues each of its upstream GETs at most once;
\* after a GET answered with a non-2xx status it issues no further GET and sends
\* exactly one message, the error message with that status code.
C14_NoRetry ==
    /\ \A i, j \in 1..Len(sgets) : i < j => sgets[i].url # sgets[j].url
    /\ \A i \in 1..Len(sgets) :
          sgets[i].status \notin {0, 200} =>
              /\ i = Len(sgets)
              /\ spc = "done"
              /\ smsgs = <<MsgHttpError(sgets[i].status)>>
    /\ \A t \in Tasks :
          /\ tissued[t] <= MaxGets(tcmd[t])
          /\ tcmd[t].gets <= MaxGets(tcmd[t])
          /\ tpc[t] = "failed" => qmsgs[t] = <<>>
          /\ (tcmd[t].err # 0 /\ tpc[t] = "idle") => qmsgs[t] = <<MsgNwsError(tcmd[t].err)>>

\* wx_set ended on the failed points GET, and a forecast query ended on its
\* failed forecast GET.
C14_Witness ==
    /\ spc = "done"
    /\ Len(sgets) = 2
    /\ sgets[2] = [url |-> "points", status |-> 500]
    /\ smsgs = <<MsgHttpError(500)>>
    /\ tcmd[1].cmd = "wxforecast"
    /\ tcmd[1].err = 500
    /\ tcmd[1].gets = 2
    /\ tpc[1] = "idle"
    /\ qmsgs[1] = <<MsgNwsError(500)>>

----------------------------------------------------------------------------
\* C15: after any sequence of wx_save and wx_set commands the persisted store
\* holds at most one entry per (user_id, name), and every entry has an
\* upper-case station_id and units "imperial" or "metric".
C15_StoreShape ==
    /\ \A m1, m2 \in file.text : m1[1] = m2[1] => m1 = m2
    /\ \A m \in file.text :
          /\ \A x1, x2 \in m[2] : x1[1] = x2[1] => x1 = x2
          /\ \A x \in m[2] :
                /\ upper(x[2].station_id) = x[2].station_id
                /\ x[2].units \in {"imperial", "metric"}

\* User 42's home comes from wx_set, with the station the collection spelt
\* "kmwl"; user 7's from wx_save kdfw with units "Metric".
C15_Witness ==
    /\ get_location(file, "42", "home") =
           [station_id |-> "KMWL", lat |-> 1000, lon |-> 1000, units |-> "metric"]
    /\ get_location(file, "7", "home") =
           [station_id |-> "KDFW", lat |-> 328998, lon |-> -970403, units |-> "metric"]
    /\ slookup.features = <<K00>>
    /\ wsave.user = "7" /\ wsave.saved

\* wx_set has ended with a station found and every GET answered 2xx.
SetSucceeded ==
    /\ spc = "done"
    /\ lower(sarg.units) \in {"imperial", "metric"}
    /\ slookup.got = "features"
    /\ sres \notin {None, Raised, ""}
    /\ \A i \in 1..Len(sgets) : sgets[i].status = 200

\* C17: a wx_set or wx_save command that does not succeed (units neither
\* "imperial" nor "metric", no geocoding result, no station found, an upstream
\* call failed) does not save: no step of it changes the locations file.
C17_FailureKeepsStore ==
    [][/\ (setVars' # setVars /\ ~SetSucceeded') => file' = file
       /\ (wsave' # wsave /\ lower(wsave'.units) \notin {"imperial", "metric"}) => file' = file
    ]_vars

\* With a home stored for user 42, a wx_save with units "kelvin" and a wx_set
\* whose collection is empty have both ended, and the home is still there.
C17_Witness ==
    /\ get_location(file, "42", "home") # NoneEntry
    /\ wsave.user = "42" /\ wsave.units = "kelvin" /\ ~wsave.saved
    /\ spc = "done" /\ scmds = 2
    /\ slookup = [got |-> "features", features |-> <<>>]
    /\ smsgs = <<MsgNoStation(sgeo.name)>>

----------------------------------------------------------------------------
\* C16: _haversine_km is symmetric, distance(A, B) = distance(B, A), and
\* distance(A, A) = 0.
C16_Symmetric ==
    hav_out # NoDist => (hav_out.ab = hav_out.ba /\ hav_out.aa = 0)

\* Two points that differ in latitude, longitude and hemisphere.
C16_Witness ==
    /\ hav_in = <<<<-5000, 1000>>, <<5000, -5000>>>>
    /\ hav_out # NoDist
    /\ hav_out.ab > 0
    /\ hav_out.ab = hav_out.ba
    /\ hav_out.aa = 0

----------------------------------------------------------------------------
\* The pairs other than the one a call is about.
OtherPairs(user_id, name) ==
    { q \in Users \X Names : q # <<user_id, name>> }

\* C18: save_location(u, n, e) and delete_location(u, n) change only the (u, n)
\* entry: what they write holds every other pair as it was stored before the
\* call; delete_location(u, n) for a pair that is not stored returns False and
\* does not rewrite the file.
C18_OnlyThatEntry ==
    [][\A p \in Threads :
        /\ (ppc[p] = "write" /\ ppc'[p] = "unlock") =>
              \A q \in OtherPairs(parg[p].user, parg[p].name) :
                  get_location(file', q[1], q[2]) = Expected(latest[q[1]][q[2]])
        /\ (/\ ppc[p] = "load" /\ ppc'[p] # "load"
            /\ parg[p].op = "delete"
            /\ ~delete_found(loc_load(file), parg[p].user, parg[p].name)) =>
              /\ file' = file
              /\ ppc'[p] = "idle"
              /\ last_op'.op = "delete"
              /\ last_op'.ret = [bool |-> FALSE]
    ]_vars

\* delete_location("42", "home") has written the file while ("42", "work") was
\* stored: "work" is still there and "home" is gone.
C18_Witness ==
    \E p \in Threads :
        /\ ppc[p] = "unlock"
        /\ parg[p].op = "delete"
        /\ parg[p].user = "42"
        /\ parg[p].name = "home"
        /\ latest["42"]["home"] \in Entries
        /\ latest["42"]["work"] \in Entries
        /\ get_location(file, "42", "work") = latest["42"]["work"]
        /\ get_location(file, "42", "home") = NoneEntry

----------------------------------------------------------------------------
\* C19: for any interleaving of concurrent tasks that call a cached wrapper for
\* the same key, at most one upstream fetch for the key is issued within one
\* TTL window: a task that starts while another task's fetch for the key is in
\* flight issues no upstream call of its own, so no two tasks ever await an
\* upstream answer for the same key.
C19_SingleFlight ==
    \A t \in Tasks, u \in Tasks :
        (t # u /\ tpc[t] \in Awaiting /\ tpc[u] \in Awaiting) =>
            tcall[t].key # tcall[u].key

\* Both tasks called fetch_latest_obs_cached for "obs:KMWL" in the same second
\* of an empty cache; both missed and each has its GET in flight.
C19_Witness ==
    /\ now = 0
    /\ tpc[1] = "await_obs" /\ tpc[2] = "await_obs"
    /\ tcall[1].key = "obs:KMWL" /\ tcall[2].key = "obs:KMWL"
    /\ tcall[1].arg = <<"KMWL">> /\ tcall[2].arg = <<"KMWL">>
    /\ tissued[1] = 1 /\ tissued[2] = 1
    /\ cache = EmptyDict

----------------------------------------------------------------------------
\* No save_location / delete_location in progress is about the pair.
Untouched(user_id, name) ==
    \A q \in Threads : ppc[q] # "idle" => <<parg[q].user, parg[q].name>> # <<user_id, name>>

\* C20: get_location, which reads the file without taking _loc_lock, never
\* observes a partly written file: for an entry (u, n) that is stored while a
\* concurrent save_location or delete_location works on a different pair,
\* get_location(u, n) returns that entry, never None, wherever the read falls
\* between the writer's truncation and its write.
C20_ReaderSeesEntry ==
    [][(/\ last_op' # last_op
        /\ last_op'.op = "get"
        /\ latest[last_op'.user][last_op'.name] \in Entries
        /\ Untouched(last_op'.user, last_op'.name)) =>
            last_op'.ret = latest[last_op'.user][last_op'.name]
    ]_vars

\* save_location("7", "home", e) has opened the file for writing and not yet
\* written it; get_location("42", "home"), stored before, has returned None.
C20_Witness ==
    /\ file = TruncatedFile
    /\ \E q \in Threads :
          /\ ppc[q] = "write"
          /\ parg[q].op = "save"
          /\ parg[q].user = "7"
          /\ parg[q].name = "home"
          /\ "42" \in DOMAIN pdata[q]
          /\ "home" \in DOMAIN pdata[q]["42"]
    /\ latest["42"]["home"] \in Entries
    /\ last_op.op = "get"
    /\ last_op.user = "42"
    /\ last_op.name = "home"
    /\ last_op.was \in Entries
    /\ ~last_op.quiet
    /\ last_op.ret = NoneEntry

----------------------------------------------------------------------------
\* The (key, payload) pairs in which the payload is one upstream served for the
\* station or the point that the key names: "obs:<ID>" names the stations whose
\* upper-cased identifier is <ID>, "fc:<lat>:<lon>" the points that round to
\* (<lat>, <lon>).
FetchedPairs ==
    { <<"obs:" \o upper(s), Payload("stations/" \o s, at)>> :
          s \in EntryStations, at \in TimePoints }
    \cup
    { <<fc_key(x[2][1], x[2][2]), Payload(points_url(x[1][1], x[1][2]), at)>> :
          x \in { y \in EntryPoints \X EntryPoints : SameRounded(y[1], y[2]) },
          at \in TimePoints }

FetchedFor(k, v) == <<k, v>> \in FetchedPairs

\* The key that names the argument of a wrapper call.
KeyOfCall(call) ==
    IF call.fn = "obs" THEN "obs:" \o upper(call.arg[1])
    ELSE fc_key(call.arg[1], call.arg[2])

\* C21: in every reachable state, under any interleaving of the cached-fetch
\* tasks, each cache entry holds a payload that upstream returned for the
\* station or the point its key names, and what a cached fetch returns is a
\* payload fetched for the station or the point it was called for.
C21_EntryMatchesKey ==
    /\ \A k \in DOMAIN cache : FetchedFor(k, cache[k].val)
    /\ \A t \in Tasks :
          tret[t] # None => FetchedFor(KeyOfCall(tcall[t]), tret[t])

\* Task 1 fetched for "kmwl" and task 2, started while task 1 awaited its
\* answer, for "KDFW"; each payload is under its own key.
C21_Witness ==
    /\ tpc[1] = "done" /\ tcall[1].arg = <<"kmwl">> /\ tissued[1] = 1
    /\ tpc[2] = "done" /\ tcall[2].arg = <<"KDFW">> /\ tissued[2] = 1
    /\ DOMAIN cache = {"obs:KMWL", "obs:KDFW"}
    /\ cache["obs:KMWL"].val = Payload("stations/kmwl", 0)
    /\ cache["obs:KDFW"].val = Payload("stations/KDFW", 0)
    /\ tret[1] = cache["obs:KMWL"].val
    /\ tret[2] = cache["obs:KDFW"].val

====
